---- MODULE Spec2Model ----
(***************************************************************************)
(* Model of the scene host (main.ts), of the phoenix particle scene with   *)
(* its sprite pool (scenes/phoenixScene.ts) and of the card scene          *)
(* (scenes/aceScene.ts).                                                   *)
(*                                                                         *)
(* Time is counted in tenths of a second: deltaTime, the spawn timers and  *)
(* the particle lives are integers numbers of 0.1 s.  Math.random() is a   *)
(* nondeterministic choice.  The purely visual sprite fields (x, y, alpha, *)
(* scale, rotation) and the velocities that only feed them are not part of *)
(* the state.                                                              *)
(***************************************************************************)
EXTENDS Integers, Sequences, FiniteSets, TLC

VARIABLES
    current,          \* id of currentScene (main.ts:27), "none" before the first switch
    scenes,           \* keys of the scene registry `scenes` (main.ts:26)
    sceneTickers,     \* the registry sceneTickers (main.ts:29): key -> callbacks
    appTicker,        \* callbacks registered with app.ticker
    particles,        \* phoenix: particles (list of FireParticle)
    flameCount, baseCount, sparkCount,
    baseSpawnTimer, sparkSpawnTimer,
    spritePools,      \* phoenix: idle sprites per ParticleType
    constructed,      \* number of sprites built by createNewParticleSprite, per type
    destroyed,        \* sprites on which destroy() was called
    frame,            \* record of what the last phoenixTicker call did
    ticks,            \* frames run since the phoenix scene was built
    held,             \* pool client: sprites handed out by getPooledSprite
    lastOp,           \* pool client: the last pool call and what it saw
    ace,              \* the closure variables of createAceScene, as one record
    hostLog,          \* the last switchToScene call: target, scene left, and
                      \* what it did, in the order it did it
    view,             \* positions on screen: renderer size, emitter, sprites,
                      \* decks and cards (followed where resize is studied)
    magic             \* the magic scenes built so far, each with its fetch
                      \* (followed where the dialogue is studied)

vars == <<current, scenes, sceneTickers, appTicker, particles, flameCount,
          baseCount, sparkCount, baseSpawnTimer, sparkSpawnTimer, spritePools,
          constructed, destroyed, frame, ticks, held, lastOp, ace,
          hostLog, view, magic>>

poolVars == <<held, lastOp>>

(* ---------------------------- bounds ---------------------------------- *)
\* frames run on one phoenix scene before it is left
MaxTicks == 6
\* pool client: sprites constructed per type, and length of an idle list
MaxHandles == 1
\* longest list of callbacks kept under one key of sceneTickers
MaxPushed == 3
MaxPoolLen == 2

\* app.ticker.deltaMS / 1000 of a frame: a short frame (0.1 s) or a long one
\* (0.5 s), so that a timer both misses and reaches its interval.
Deltas == {1, 5}

(* --------------------------- constants -------------------------------- *)
maxSprites == 10
baseSpawnInterval == 2
sparkSpawnInterval == 5
maxBase == 3
maxSpark == 4
baseMinLife == 15
sparkMinLife == 25
flameLife == 10

BASE == "base"
FLAME == "flame"
SPARK == "spark"
ParticleType == {BASE, FLAME, SPARK}

\* maxLife = 1.5 + Math.random() * 0.5 and 2.5 + Math.random() * 0.5: the
\* two ends of each range.
BaseLives == {baseMinLife, baseMinLife + 4}
SparkLives == {sparkMinLife, sparkMinLife + 4}

SceneIds == {"menu", "ace", "magic", "phoenix"}

(* ------------------------- phoenix closure ----------------------------- *)
\* The closure variables of createPhoenixScene as one record.
PhoenixState ==
    [particles |-> particles, flameCount |-> flameCount, baseCount |-> baseCount,
     sparkCount |-> sparkCount, baseSpawnTimer |-> baseSpawnTimer,
     sparkSpawnTimer |-> sparkSpawnTimer, spritePools |-> spritePools,
     constructed |-> constructed, destroyed |-> destroyed,
     spawned |-> <<>>, removed |-> <<>>]

emptyPools == [t \in ParticleType |-> <<>>]

\* State of a freshly built phoenix scene.
createPhoenixScene ==
    [particles |-> <<>>, flameCount |-> 0, baseCount |-> 0, sparkCount |-> 0,
     baseSpawnTimer |-> 0, sparkSpawnTimer |-> 0, spritePools |-> emptyPools,
     constructed |-> [t \in ParticleType |-> 0], destroyed |-> {},
     spawned |-> <<>>, removed |-> <<>>]

\* new PIXI.Sprite(texture): the n-th sprite built for a type.
createNewParticleSprite(s, type) ==
    [sprite |-> <<type, s.constructed[type] + 1>>,
     st |-> [s EXCEPT !.constructed[type] = @ + 1]]

\* Variant: reads the top of the idle list without popping it.
getPooledSpritePeek(s, type) ==
    LET pool == s.spritePools[type] IN
    IF Len(pool) > 0
    THEN [sprite |-> pool[Len(pool)], st |-> s]
    ELSE createNewParticleSprite(s, type)

\* Variant: builds a new sprite whatever the idle list holds.
getPooledSpriteAlwaysNew(s, type) == createNewParticleSprite(s, type)

\* pool.pop() when the idle list is non-empty, else a new sprite.
getPooledSprite(s, type) ==
    LET pool == s.spritePools[type] IN
    IF Len(pool) > 0
    THEN [sprite |-> pool[Len(pool)],
          st |-> [s EXCEPT !.spritePools[type] = SubSeq(pool, 1, Len(pool) - 1)]]
    ELSE createNewParticleSprite(s, type)

\* Variant: destroys the sprite instead of keeping it for reuse.
returnSpriteToPoolDestroy(s, sprite, type) ==
    [s EXCEPT !.destroyed = @ \cup {sprite}]

\* Variant: the sprite is dropped, neither kept for reuse nor destroyed.
returnSpriteToPoolDrop(s, sprite, type) == s

\* spritePools[type].push(sprite), with no test of who holds the sprite.
returnSpriteToPool(s, sprite, type) ==
    [s EXCEPT !.spritePools[type] = Append(@, sprite)]


\* The body of spawnParticle after its guard: build the particle around a
\* pooled sprite, push it and count it.  m is the maxLife drawn for it.
\* age is an observer field: the deltas accumulated since the spawn of a
\* Base or Spark particle (the code has no such field).
\* Variant: a Base or Spark particle keeps the default life 1.0 instead of
\* life = maxLife.
pushParticleDefaultLife(s, type, m) ==
    LET g == getPooledSprite(s, type)
        particle == [sprite |-> g.sprite, type |-> type,
                     life |-> flameLife,
                     maxLife |-> IF type = FLAME THEN "Infinity" ELSE m,
                     age |-> 0]
        s1 == [g.st EXCEPT !.particles = Append(@, particle)]
    IN CASE type = FLAME -> [s1 EXCEPT !.flameCount = @ + 1]
         [] type = BASE  -> [s1 EXCEPT !.baseCount = @ + 1]
         [] type = SPARK -> [s1 EXCEPT !.sparkCount = @ + 1]

pushParticle(s, type, m) ==
    LET g == getPooledSprite(s, type)
        particle == [sprite |-> g.sprite, type |-> type,
                     life |-> IF type = FLAME THEN flameLife ELSE m,
                     maxLife |-> IF type = FLAME THEN "Infinity" ELSE m,
                     age |-> 0]
        s1 == [g.st EXCEPT !.particles = Append(@, particle)]
    IN CASE type = FLAME -> [s1 EXCEPT !.flameCount = @ + 1]
         [] type = BASE  -> [s1 EXCEPT !.baseCount = @ + 1]
         [] type = SPARK -> [s1 EXCEPT !.sparkCount = @ + 1]

\* Variant: spawnParticle without the test against maxSprites.
spawnParticleNoCap(s, type, m) == pushParticle(s, type, m)

spawnParticle(s, type, m) ==
    IF Len(s.particles) >= maxSprites THEN s ELSE pushParticle(s, type, m)

\* A call of spawnParticle made by the ticker, noted in the frame record.
spawnFrom(s, type, m, cause, timer) ==
    [spawnParticle(s, type, m) EXCEPT
        !.spawned = Append(@, [type |-> type, cause |-> cause, timer |-> timer,
                               length |-> Len(s.particles),
                               reused |-> Len(s.spritePools[type]) > 0])]

\* Variant: the flame guard without its flameCount === 0 test.
ensureFlameEveryFrame(s) ==
    IF Len(s.particles) < maxSprites
    THEN spawnFrom(s, FLAME, flameLife, "ensure", 0)
    ELSE s

\* "Ensure single flame tongue exists"
ensureFlame(s) ==
    IF s.flameCount = 0 /\ Len(s.particles) < maxSprites
    THEN spawnFrom(s, FLAME, flameLife, "ensure", 0)
    ELSE s

\* "Ensure at least one base particle exists"
ensureBase(s, m) ==
    IF s.baseCount = 0 /\ Len(s.particles) < maxSprites
    THEN spawnFrom(s, BASE, m, "ensure", s.baseSpawnTimer)
    ELSE s

\* Variant: baseCount <= 3 in place of baseCount < 3.
timedBaseOffByOne(s, deltaTime, m) ==
    LET t == s.baseSpawnTimer + deltaTime IN
    IF t >= baseSpawnInterval
    THEN LET s1 == [s EXCEPT !.baseSpawnTimer = 0] IN
         IF Len(s1.particles) < maxSprites /\ s1.baseCount <= maxBase
         THEN spawnFrom(s1, BASE, m, "timed", t)
         ELSE s1
    ELSE [s EXCEPT !.baseSpawnTimer = t]

timedBase(s, deltaTime, m) ==
    LET t == s.baseSpawnTimer + deltaTime IN
    IF t >= baseSpawnInterval
    THEN LET s1 == [s EXCEPT !.baseSpawnTimer = 0] IN
         IF Len(s1.particles) < maxSprites /\ s1.baseCount < maxBase
         THEN spawnFrom(s1, BASE, m, "timed", t)
         ELSE s1
    ELSE [s EXCEPT !.baseSpawnTimer = t]

timedSpark(s, deltaTime, m) ==
    LET t == s.sparkSpawnTimer + deltaTime IN
    IF t >= sparkSpawnInterval
    THEN LET s1 == [s EXCEPT !.sparkSpawnTimer = 0] IN
         IF Len(s1.particles) < maxSprites /\ s1.sparkCount < maxSpark
         THEN spawnFrom(s1, SPARK, m, "timed", t)
         ELSE s1
    ELSE [s EXCEPT !.sparkSpawnTimer = t]

seqRange(q) == {q[k] : k \in 1..Len(q)}

\* particles.splice(i, 1)
splice(seq, i) == SubSeq(seq, 1, i - 1) \o SubSeq(seq, i + 1, Len(seq))

\* Variant: a dead particle is spliced out but its sprite is not returned.
updateParticleNoReturn(s, i, deltaTime) ==
    LET p0 == s.particles[i]
        p1 == [p0 EXCEPT !.life = @ - deltaTime,
                         !.age = IF p0.type = FLAME THEN @ ELSE @ + deltaTime]
        p  == IF p1.type = FLAME THEN [p1 EXCEPT !.life = @ + deltaTime] ELSE p1
        s1 == [s EXCEPT !.particles[i] = p]
    IN IF p.life <= 0 /\ p.type # FLAME
       THEN LET s3 == [s1 EXCEPT !.particles = splice(@, i),
                                 !.removed = Append(@, p)]
            IN CASE p.type = BASE  -> [s3 EXCEPT !.baseCount = @ - 1]
                 [] p.type = SPARK -> [s3 EXCEPT !.sparkCount = @ - 1]
       ELSE s1

\* Variant: every dead particle's sprite goes to the Base idle list.
updateParticleWrongPool(s, i, deltaTime) ==
    LET p0 == s.particles[i]
        p1 == [p0 EXCEPT !.life = @ - deltaTime,
                         !.age = IF p0.type = FLAME THEN @ ELSE @ + deltaTime]
        p  == IF p1.type = FLAME THEN [p1 EXCEPT !.life = @ + deltaTime] ELSE p1
        s1 == [s EXCEPT !.particles[i] = p]
    IN IF p.life <= 0 /\ p.type # FLAME
       THEN LET s2 == returnSpriteToPool(s1, p.sprite, BASE)
                s3 == [s2 EXCEPT !.particles = splice(@, i),
                                 !.removed = Append(@, p)]
            IN CASE p.type = BASE  -> [s3 EXCEPT !.baseCount = @ - 1]
                 [] p.type = SPARK -> [s3 EXCEPT !.sparkCount = @ - 1]
       ELSE s1

\* Variant: a Spark particle's life is not counted down.
updateParticleSparkFrozen(s, i, deltaTime) ==
    LET p0 == s.particles[i]
        p1 == [p0 EXCEPT !.life = IF p0.type = SPARK THEN @ ELSE @ - deltaTime,
                         !.age = IF p0.type = FLAME THEN @ ELSE @ + deltaTime]
        p  == IF p1.type = FLAME THEN [p1 EXCEPT !.life = @ + deltaTime] ELSE p1
        s1 == [s EXCEPT !.particles[i] = p]
    IN IF p.life <= 0 /\ p.type # FLAME
       THEN LET s2 == returnSpriteToPool(s1, p.sprite, p.type)
                s3 == [s2 EXCEPT !.particles = splice(@, i),
                                 !.removed = Append(@, p)]
            IN CASE p.type = BASE  -> [s3 EXCEPT !.baseCount = @ - 1]
                 [] p.type = SPARK -> [s3 EXCEPT !.sparkCount = @ - 1]
       ELSE s1

\* One pass of the update loop body for particles[i].
updateParticle(s, i, deltaTime) ==
    LET p0 == s.particles[i]
        p1 == [p0 EXCEPT !.life = @ - deltaTime,
                         !.age = IF p0.type = FLAME THEN @ ELSE @ + deltaTime]
        p  == IF p1.type = FLAME THEN [p1 EXCEPT !.life = @ + deltaTime] ELSE p1
        s1 == [s EXCEPT !.particles[i] = p]
    IN IF p.life <= 0 /\ p.type # FLAME
       THEN LET s2 == returnSpriteToPool(s1, p.sprite, p.type)
                s3 == [s2 EXCEPT !.particles = splice(@, i),
                                 !.removed = Append(@, p)]
            IN CASE p.type = BASE  -> [s3 EXCEPT !.baseCount = @ - 1]
                 [] p.type = SPARK -> [s3 EXCEPT !.sparkCount = @ - 1]
       ELSE s1

\* for (let i = particles.length - 1; i >= 0; i--)
RECURSIVE updateParticles(_, _, _)
updateParticles(s, i, deltaTime) ==
    IF i < 1 THEN s
    ELSE updateParticles(updateParticle(s, i, deltaTime), i - 1, deltaTime)

\* The spawn scheduling of one frame; mb1, mb2, ms are the random maxLife
\* values of the particles it may spawn.
\* Variant: every frame pushes a Base and a Spark particle, with no timer,
\* no per-type limit and no cap.
spawnPhaseNoLimit(s, deltaTime, mb1, mb2, ms) ==
    pushParticle(pushParticle(ensureBase(ensureFlame(s), mb1), BASE, mb2),
                 SPARK, ms)

spawnPhase(s, deltaTime, mb1, mb2, ms) ==
    timedSpark(timedBase(ensureBase(ensureFlame(s), mb1), deltaTime, mb2),
               deltaTime, ms)

phoenixTickerStep(s, deltaTime, mb1, mb2, ms) ==
    LET s1 == spawnPhase(s, deltaTime, mb1, mb2, ms)
    IN updateParticles(s1, Len(s1.particles), deltaTime)

\* (scene as any).cleanup of the phoenix scene
RECURSIVE returnAll(_, _)
returnAll(s, i) ==
    IF i > Len(s.particles) THEN s
    ELSE LET p == s.particles[i] IN
         returnAll(IF p.sprite \notin s.destroyed
                   THEN returnSpriteToPool(s, p.sprite, p.type) ELSE s, i + 1)

poolContents(pools) == UNION {{pools[t][k] : k \in 1..Len(pools[t])} : t \in ParticleType}

\* The sprite.destroy() calls of the cleanup, in the order it makes them:
\* pool after pool, a sprite that is already destroyed is passed over.
RECURSIVE destroyLoop(_, _, _)
destroyLoop(pooled, k, done) ==
    IF k > Len(pooled) THEN <<>>
    ELSE IF pooled[k] \in done THEN destroyLoop(pooled, k + 1, done)
    ELSE <<(<<"destroySprite", pooled[k]>>)>>
             \o destroyLoop(pooled, k + 1, done \cup {pooled[k]})

cleanupDestroys(s) ==
    LET s1 == returnAll(s, 1) IN
    destroyLoop(s1.spritePools[BASE] \o s1.spritePools[FLAME]
                    \o s1.spritePools[SPARK], 1, s1.destroyed)

cleanup(s) ==
    LET s1 == returnAll(s, 1) IN
    [s1 EXCEPT !.particles = <<>>, !.flameCount = 0, !.baseCount = 0,
               !.sparkCount = 0,
               !.destroyed = @ \cup poolContents(s1.spritePools),
               !.spritePools = emptyPools]


(* ---------------------------- ace closure ------------------------------ *)
\* The clock of the card scene counts units of 500 ms.  performance.now() is
\* only ever compared with lastMoveTime and with anim.startTime, so the
\* model keeps the two differences, sinceLastMove = now - lastMoveTime and
\* anim.elapsed = now - anim.startTime, and stops counting them at
\* durationMs, the largest value either is compared with.
NUM_SPRITES == 144
moveInterval == 2
durationMs == 4
null == -1

\* time between two frames: 500 ms or 1500 ms
AceDeltas == {1, 3}

Cards == 0..(NUM_SPRITES - 1)
LEFT == "left"
RIGHT == "right"

\* What the last call on the card scene did (observer record).
noLog ==
    [op |-> "none", dt |-> 0, activeBefore |-> 0, sinceBefore |-> 0,
     passedGuards |-> FALSE, flipped |-> FALSE, sourceEmpty |-> FALSE,
     started |-> FALSE, nullTop |-> FALSE, card |-> null, source |-> LEFT,
     sourceLen |-> 0, wasLast |-> FALSE, commits |-> <<>>,
     priorRight |-> 0, priorInFlight |-> 0]

\* The closure before any card scene has been built.
noAce ==
    [leftDeck |-> <<>>, rightDeck |-> <<>>, zIndex |-> [c \in Cards |-> 0],
     leftTopCard |-> null, rightTopCard |-> null,
     activeCardAnimations |-> <<>>, animatingCards |-> {},
     sinceLastMove |-> 0, movingLeftToRight |-> TRUE,
     stage |-> {}, cardDestroyed |-> {}, firstDone |-> FALSE, log |-> noLog]

\* Variant: leftTopCard keeps the first card stacked instead of the last.
createAceSceneFirstTop ==
    [leftDeck |-> [i \in 1..NUM_SPRITES |-> i - 1], rightDeck |-> <<>>,
     zIndex |-> [c \in Cards |-> c],
     leftTopCard |-> 0, rightTopCard |-> null,
     activeCardAnimations |-> <<>>, animatingCards |-> {},
     sinceLastMove |-> 0, movingLeftToRight |-> TRUE,
     stage |-> {}, cardDestroyed |-> {}, firstDone |-> FALSE,
     log |-> [noLog EXCEPT !.op = "create"]]

\* State of a freshly built card scene: the loop that stacks the 144 cards
\* on leftDeck, then lastMoveTime = performance.now().
createAceScene ==
    [leftDeck |-> [i \in 1..NUM_SPRITES |-> i - 1], rightDeck |-> <<>>,
     zIndex |-> [c \in Cards |-> c],
     leftTopCard |-> NUM_SPRITES - 1, rightTopCard |-> null,
     activeCardAnimations |-> <<>>, animatingCards |-> {},
     sinceLastMove |-> 0, movingLeftToRight |-> TRUE,
     stage |-> {}, cardDestroyed |-> {}, firstDone |-> FALSE,
     log |-> [noLog EXCEPT !.op = "create"]]

\* const x = e; f(x): e is evaluated once and the value is handed on, where
\* a LET definition would be expanded at every use.
once(e, f(_)) == CHOOSE r \in {f(x) : x \in {e}} : TRUE

\* deck.children
children(a, deck) == IF deck = LEFT THEN a.leftDeck ELSE a.rightDeck

setChildren(a, deck, seq) ==
    IF deck = LEFT THEN [a EXCEPT !.leftDeck = seq] ELSE [a EXCEPT !.rightDeck = seq]

setTopCard(a, deck, card) ==
    IF deck = LEFT THEN [a EXCEPT !.leftTopCard = card]
    ELSE [a EXCEPT !.rightTopCard = card]

getTopCard(a, deck) == IF deck = LEFT THEN a.leftTopCard ELSE a.rightTopCard

\* Variant: the fallback scan answers 0 for a deck without cards.
scanMaxZEmptyZero(a, deck) ==
    IF Len(children(a, deck)) = 0 THEN 0
    ELSE once([i \in 1..Len(children(a, deck)) |-> a.zIndex[children(a, deck)[i]]],
              LAMBDA z : z[CHOOSE k \in DOMAIN z : \A j \in DOMAIN z : z[j] <= z[k]])

\* The loop of getMaxZIndex and of updateTopCardCache: the greatest zIndex
\* among the children, -1 for an empty deck.
scanMaxZ(a, deck) ==
    IF Len(children(a, deck)) = 0 THEN -1
    ELSE once([i \in 1..Len(children(a, deck)) |-> a.zIndex[children(a, deck)[i]]],
              LAMBDA z : z[CHOOSE k \in DOMAIN z : \A j \in DOMAIN z : z[j] <= z[k]])

\* The first child that holds the greatest zIndex (zIndex > maxZ keeps the
\* earlier of two equal ones).
scanTopCard(a, deck) ==
    once([i \in 1..Len(children(a, deck)) |-> a.zIndex[children(a, deck)[i]]],
         LAMBDA z : children(a, deck)[CHOOSE k \in DOMAIN z :
                                         /\ \A j \in DOMAIN z : z[j] <= z[k]
                                         /\ \A j \in 1..(k - 1) : z[j] < z[k]])

getMaxZIndex(a, deck) ==
    IF getTopCard(a, deck) # null THEN a.zIndex[getTopCard(a, deck)]
    ELSE scanMaxZ(a, deck)

\* Variant: the card takes the zIndex of the card below it.
addCardToTopSameZ(a, deck, card) ==
    once(getMaxZIndex(a, deck),
         LAMBDA maxZ :
             setTopCard(setChildren([a EXCEPT !.zIndex[card] = maxZ],
                                    deck, Append(children(a, deck), card)),
                        deck, card))

addCardToTop(a, deck, card) ==
    once(IF getTopCard(a, deck) # null
         THEN a.zIndex[getTopCard(a, deck)]
         ELSE getMaxZIndex(a, deck),
         LAMBDA maxZ :
             setTopCard(setChildren([a EXCEPT !.zIndex[card] = maxZ + 1],
                                    deck, Append(children(a, deck), card)),
                        deck, card))

\* Variant: the cache is left as it was.
updateTopCardCacheKeep(a, deck) == a

\* Variant: the scan keeps the child with the lowest zIndex.
updateTopCardCacheLowest(a, deck) ==
    IF Len(children(a, deck)) = 0 THEN setTopCard(a, deck, null)
    ELSE once([i \in 1..Len(children(a, deck)) |-> a.zIndex[children(a, deck)[i]]],
              LAMBDA z : setTopCard(a, deck,
                  children(a, deck)[CHOOSE k \in DOMAIN z :
                                       \A j \in DOMAIN z : z[k] <= z[j]]))

updateTopCardCache(a, deck) ==
    IF Len(children(a, deck)) = 0 THEN setTopCard(a, deck, null)
    ELSE setTopCard(a, deck, scanTopCard(a, deck))

\* Variant: the card stays among the children.
removeChildNone(seq, card) == seq

\* sourceDeck.removeChild(card)
removeChild(seq, card) == SelectSeq(seq, LAMBDA c : c # card)

saturate(x) == IF x > durationMs THEN durationMs ELSE x

\* performance.now() has moved on by dt since the previous frame.
advanceClock(a, dt) ==
    [a EXCEPT !.sinceLastMove = saturate(@ + dt),
              !.activeCardAnimations =
                  [k \in 1..Len(@) |-> [@[k] EXCEPT !.elapsed = saturate(@ + dt)]]]

\* Variant: a completed transfer leaves its card in animatingCards.
updateAnimationKeepAnimating(a, i) ==
    LET anim == a.activeCardAnimations[i] IN
    IF anim.card \in a.cardDestroyed
    THEN [a EXCEPT !.activeCardAnimations = splice(@, i)]
    ELSE IF anim.elapsed >= anim.durationMs
         THEN once([a EXCEPT !.stage = @ \ {anim.card}],
              LAMBDA a1 :
              once(addCardToTop(a1, anim.targetDeck, anim.card),
              LAMBDA a2 :
                 [a2 EXCEPT
                    !.activeCardAnimations = splice(@, i),
                    !.firstDone = TRUE,
                    !.log.commits =
                        Append(@, [card |-> anim.card, deck |-> anim.targetDeck,
                                   priorMax |-> scanMaxZ(a, anim.targetDeck),
                                   priorLen |-> Len(children(a, anim.targetDeck)),
                                   first |-> ~a.firstDone])]))
         ELSE a

\* The body of the animation loop for activeCardAnimations[i].
updateAnimation(a, i) ==
    LET anim == a.activeCardAnimations[i] IN
    IF anim.card \in a.cardDestroyed
    THEN [a EXCEPT !.activeCardAnimations = splice(@, i)]
    ELSE IF anim.elapsed >= anim.durationMs
         THEN once([a EXCEPT !.stage = @ \ {anim.card},
                             !.animatingCards = @ \ {anim.card}],
              LAMBDA a1 :
              once(addCardToTop(a1, anim.targetDeck, anim.card),
              LAMBDA a2 :
                 [a2 EXCEPT
                    !.activeCardAnimations = splice(@, i),
                    !.firstDone = TRUE,
                    !.log.commits =
                        Append(@, [card |-> anim.card, deck |-> anim.targetDeck,
                                   priorMax |-> scanMaxZ(a, anim.targetDeck),
                                   priorLen |-> Len(children(a, anim.targetDeck)),
                                   first |-> ~a.firstDone])]))
         ELSE a

\* for (let i = activeCardAnimations.length - 1; i >= 0; i--)
RECURSIVE animationLoop(_, _)
animationLoop(a, i) ==
    IF i < 1 THEN a
    ELSE once(updateAnimation(a, i), LAMBDA a1 : animationLoop(a1, i - 1))

animationTickerStep(a) == animationLoop(a, Len(a.activeCardAnimations))

\* Variant: the direction is never re-evaluated.
moveNextCardNoFlip(a) ==
    LET moving == a.movingLeftToRight
        sourceDeck == IF moving THEN LEFT ELSE RIGHT
        targetDeck == IF moving THEN RIGHT ELSE LEFT
        card == getTopCard(a, sourceDeck)
        src == children(a, sourceDeck)
        a1 == [a EXCEPT !.log.passedGuards = TRUE,
                        !.log.source = sourceDeck,
                        !.log.sourceLen = Len(src)]
    IN IF card = null THEN [a1 EXCEPT !.log.nullTop = TRUE]
       ELSE once(setChildren(a1, sourceDeck, removeChild(src, card)),
            LAMBDA a2 :
            once(updateTopCardCache(a2, sourceDeck),
            LAMBDA a3 :
               [a3 EXCEPT
                  !.stage = @ \cup {card},
                  !.animatingCards = @ \cup {card},
                  !.activeCardAnimations =
                      Append(@, [card |-> card, elapsed |-> 0,
                                 durationMs |-> durationMs,
                                 targetDeck |-> targetDeck]),
                  !.sinceLastMove = 0,
                  !.log.started = TRUE,
                  !.log.card = card,
                  !.log.wasLast = TRUE]))

\* The part of aceTicker after its two guards.
moveNextCard(a) ==
    LET moving == IF Len(a.leftDeck) = 0 THEN FALSE
                  ELSE IF Len(a.rightDeck) = 0 THEN TRUE
                  ELSE a.movingLeftToRight
        oldSource == IF a.movingLeftToRight THEN LEFT ELSE RIGHT
        sourceDeck == IF moving THEN LEFT ELSE RIGHT
        targetDeck == IF moving THEN RIGHT ELSE LEFT
        card == getTopCard(a, sourceDeck)
        src == children(a, sourceDeck)
        a1 == [a EXCEPT !.movingLeftToRight = moving,
                        !.log.passedGuards = TRUE,
                        !.log.flipped = (moving # a.movingLeftToRight),
                        !.log.sourceEmpty = (Len(children(a, oldSource)) = 0),
                        !.log.source = sourceDeck,
                        !.log.sourceLen = Len(src)]
    IN IF card = null THEN [a1 EXCEPT !.log.nullTop = TRUE]
       ELSE once(setChildren(a1, sourceDeck, removeChild(src, card)),
            LAMBDA a2 :
            once(updateTopCardCache(a2, sourceDeck),
            LAMBDA a3 :
               [a3 EXCEPT
                  !.stage = @ \cup {card},
                  !.animatingCards = @ \cup {card},
                  !.activeCardAnimations =
                      Append(@, [card |-> card, elapsed |-> 0,
                                 durationMs |-> durationMs,
                                 targetDeck |-> targetDeck]),
                  !.sinceLastMove = 0,
                  !.log.started = TRUE,
                  !.log.card = card,
                  !.log.wasLast = (Len(src) > 0 /\ src[Len(src)] = card
                                   /\ a.zIndex[card] = scanMaxZ(a, sourceDeck))]))

\* Variant: aceTicker without the test of activeCardAnimations.length.
aceTickerStepNoActiveGuard(a) ==
    IF a.sinceLastMove < moveInterval THEN a
    ELSE moveNextCard(a)

\* Variant: aceTicker without the test of the move interval.
aceTickerStepNoIntervalGuard(a) ==
    IF Len(a.activeCardAnimations) > 0 THEN a
    ELSE moveNextCard(a)

aceTickerStep(a) ==
    IF Len(a.activeCardAnimations) > 0 THEN a
    ELSE IF a.sinceLastMove < moveInterval THEN a
    ELSE moveNextCard(a)

\* Variant: animationTicker is called before aceTicker.
aceFrameStepAnimationFirst(a, dt) ==
    once(advanceClock(a, dt),
    LAMBDA a0 :
    once([a0 EXCEPT !.log = [noLog EXCEPT
                               !.op = "frame", !.dt = dt,
                               !.activeBefore = Len(a0.activeCardAnimations),
                               !.sinceBefore = a0.sinceLastMove]],
    LAMBDA a1 :
    once(animationTickerStep(a1), LAMBDA a2 : aceTickerStep(a2))))

\* One frame of the card scene: app.ticker calls aceTicker, then
\* animationTicker, dt after the previous frame.
aceFrameStep(a, dt) ==
    once(advanceClock(a, dt),
    LAMBDA a0 :
    once([a0 EXCEPT !.log = [noLog EXCEPT
                               !.op = "frame", !.dt = dt,
                               !.activeBefore = Len(a0.activeCardAnimations),
                               !.sinceBefore = a0.sinceLastMove]],
    LAMBDA a1 :
    once(aceTickerStep(a1), LAMBDA a2 : animationTickerStep(a2))))

\* Variant: cleanup leaves activeCardAnimations as it is.
aceCleanupKeepActive(a) ==
    [a EXCEPT !.stage = @ \ (a.animatingCards \ a.cardDestroyed),
              !.animatingCards = {}]

\* (scene as any).cleanup of the card scene
aceCleanup(a) ==
    [a EXCEPT !.stage = @ \ (a.animatingCards \ a.cardDestroyed),
              !.animatingCards = {},
              !.activeCardAnimations = <<>>]

\* What switchToScene does to a card scene it leaves: cleanup, "Clean up any
\* remaining cards" on the stage, then destroy({ children: true }), which
\* destroys the two decks and the cards they hold.
leaveAce(a) ==
    LET a1 == aceCleanup(a) IN
    [a1 EXCEPT !.stage = {},
               !.cardDestroyed = @ \cup seqRange(a1.leftDeck) \cup seqRange(a1.rightDeck),
               !.leftDeck = <<>>, !.rightDeck = <<>>,
               !.log = [noLog EXCEPT !.op = "teardown",
                                     !.priorRight = Len(a.rightDeck),
                                     !.priorInFlight = Len(a.activeCardAnimations)]]

(* ------------------------------- layout -------------------------------- *)
\* Positions on screen.  A length is a whole number of fifths of a pixel, so
\* that STACK_OFFSET (0.6 px), a quarter and 0.65 of a width, and half a
\* height are exact.  The scenes sit unscaled at the origin of the stage, so
\* a deck's coordinates are also its global ones.
STACK_OFFSET == 3
arcHeight == 200

\* app.renderer.width and height: 800 x 600 px or 1000 x 800 px
Sizes == {[width |-> 4000, height |-> 3000], [width |-> 5000, height |-> 4000]}

\* (Math.random() - 0.5) * 6, a value of [-3 px, 3 px)
Jitters == {-10, 10}

\* What one tick adds to the position of a Base particle (vx, vy times
\* deltaTime * 60), or where it puts a Spark relative to the emitter (the
\* spiral and the upward offset).
Drifts == {[x |-> -10, y |-> -50], [x |-> 10, y |-> -60]}

noViewLog ==
    [op |-> "none", from |-> [width |-> 0, height |-> 0],
     offsetX |-> 0, offsetY |-> 0, landed |-> <<>>]

\* Nothing laid out.
noView ==
    [renderer |-> [width |-> 0, height |-> 0], emitterX |-> 0, emitterY |-> 0,
     sprite |-> <<>>, deck |-> <<>>, card |-> <<>>, anim |-> <<>>,
     log |-> noViewLog]

\* sprite.x, sprite.y as spawnParticle sets them
spawnPosition(v, type) ==
    [x |-> v.emitterX,
     y |-> IF type = BASE THEN v.emitterY + 500 ELSE v.emitterY]

\* sprite.x, sprite.y after the update loop of one tick; the Flame has
\* vx = vy = 0.
tickPosition(v, type, d) ==
    CASE type = FLAME -> spawnPosition(v, type)
      [] type = BASE  -> [x |-> spawnPosition(v, type).x + d.x,
                          y |-> spawnPosition(v, type).y + d.y]
      [] type = SPARK -> [x |-> v.emitterX + d.x, y |-> v.emitterY + d.y]

\* The phoenix scene built at a renderer size, after a first tick that left
\* the particles ps; d gives the drift of each sprite.
phoenixLayout(size, ps, d) ==
    LET v == [noView EXCEPT !.renderer = size,
                            !.emitterX = size.width \div 2,
                            !.emitterY = size.height \div 2]
    IN [v EXCEPT !.sprite =
            [sp \in {ps[i].sprite : i \in 1..Len(ps)} |->
                tickPosition(v, sp[1], d[sp])],
                 !.log.op = "create"]

\* Variant: the handler moves the emitter and the Flame and leaves the other
\* particles where they are.
phoenixResizeHandlerNoShift(v, ps) ==
    LET newEmitterX == v.renderer.width \div 2
        newEmitterY == v.renderer.height \div 2
    IN [v EXCEPT
          !.emitterX = newEmitterX,
          !.emitterY = newEmitterY,
          !.sprite = [sp \in DOMAIN @ |->
                        IF \E i \in 1..Len(ps) :
                               ps[i].sprite = sp /\ ps[i].type = FLAME
                        THEN [x |-> newEmitterX, y |-> newEmitterY]
                        ELSE @[sp]],
          !.log.offsetX = newEmitterX - v.emitterX,
          !.log.offsetY = newEmitterY - v.emitterY]

\* resizeHandler of the phoenix scene, over the particles ps.  No sprite of
\* a live particle is destroyed, so the test of sprite.destroyed passes.
phoenixResizeHandler(v, ps) ==
    LET newEmitterX == v.renderer.width \div 2
        newEmitterY == v.renderer.height \div 2
        offsetX == newEmitterX - v.emitterX
        offsetY == newEmitterY - v.emitterY
    IN [v EXCEPT
          !.emitterX = newEmitterX,
          !.emitterY = newEmitterY,
          !.sprite = [sp \in DOMAIN @ |->
                        IF \E i \in 1..Len(ps) : ps[i].sprite = sp
                        THEN IF \E i \in 1..Len(ps) :
                                    ps[i].sprite = sp /\ ps[i].type = FLAME
                             THEN [x |-> newEmitterX, y |-> newEmitterY]
                             ELSE [x |-> @[sp].x + offsetX,
                                   y |-> @[sp].y + offsetY]
                        ELSE @[sp]],
          !.log.offsetX = offsetX,
          !.log.offsetY = offsetY]

\* deckXLeft, deckXRight and deckY for a renderer size
deckPosition(size, deck) ==
    [x |-> IF deck = LEFT THEN (size.width * 25) \div 100
           ELSE (size.width * 65) \div 100,
     y |-> size.height \div 2]

\* The card scene built at a renderer size: the decks placed, card i at
\* i * STACK_OFFSET in the left deck.
aceLayout(size) ==
    [noView EXCEPT
       !.renderer = size,
       !.deck = [d \in {LEFT, RIGHT} |-> deckPosition(size, d)],
       !.card = [c \in Cards |-> [x |-> c * STACK_OFFSET, y |-> c * STACK_OFFSET]],
       !.log.op = "create"]

\* resizeHandler of the card scene; the decks of the active scene are not
\* destroyed.
aceResizeHandler(v) ==
    [v EXCEPT !.deck = [d \in {LEFT, RIGHT} |-> deckPosition(v.renderer, d)]]

\* deck.toGlobal(p) and deck.toLocal(p, app.stage)
toGlobal(v, deck, p) == [x |-> v.deck[deck].x + p.x, y |-> v.deck[deck].y + p.y]
toLocal(v, deck, p) == [x |-> p.x - v.deck[deck].x, y |-> p.y - v.deck[deck].y]

min(x, y) == IF x < y THEN x ELSE y

\* The positions aceTicker computes when it starts a transfer of card from
\* sourceDeck to targetDeck, which holds targetLen cards; jx and jy are the
\* two random offsets.  slot is an observer field: targetStackOffset, which
\* the code does not keep.
startFlight(v, card, sourceDeck, targetDeck, targetLen, jx, jy) ==
    LET sourceGlobal == toGlobal(v, sourceDeck, v.card[card])
        targetStackOffset == targetLen * STACK_OFFSET
        targetGlobal == toGlobal(v, targetDeck,
                                 [x |-> targetStackOffset, y |-> targetStackOffset])
        finalTargetX == targetGlobal.x + jx
        finalTargetY == targetGlobal.y + jy
    IN [v EXCEPT
          !.card[card] = sourceGlobal,
          !.anim = (card :> [sourceX |-> sourceGlobal.x, sourceY |-> sourceGlobal.y,
                             midX |-> (sourceGlobal.x + finalTargetX) \div 2,
                             midY |-> min(sourceGlobal.y, finalTargetY) - arcHeight,
                             targetX |-> finalTargetX, targetY |-> finalTargetY,
                             targetDeck |-> targetDeck,
                             slot |-> targetStackOffset]) @@ @]

\* animationTicker at t = 1 for the transfer of card: the curve ends at
\* (targetX, targetY), and the card is given the coordinates of that point
\* in its target deck.
landCard(v, card) ==
    LET anim == v.anim[card]
        finalLocal == toLocal(v, anim.targetDeck,
                              [x |-> anim.targetX, y |-> anim.targetY])
    IN [v EXCEPT
          !.card[card] = finalLocal,
          !.anim = [c \in DOMAIN @ \ {card} |-> @[c]],
          !.log.landed = Append(@, [card |-> card, deck |-> anim.targetDeck,
                                    slot |-> anim.slot,
                                    x |-> finalLocal.x, y |-> finalLocal.y])]

RECURSIVE landCards(_, _, _)
landCards(v, commits, i) ==
    IF i > Len(commits) THEN v
    ELSE landCards(landCard(v, commits[i].card), commits, i + 1)

\* The positions written by one frame of the card scene that took the
\* closure from a to a2.  Between its start and its end a transfer writes
\* points of the curve to the card, which are not followed.
aceFrameLayout(v, a, a2, jx, jy) ==
    LET v0 == [v EXCEPT !.log = [noViewLog EXCEPT !.op = "frame",
                                                  !.from = v.renderer]]
        target == IF a2.log.source = LEFT THEN RIGHT ELSE LEFT
        v1 == IF a2.log.started
              THEN startFlight(v0, a2.log.card, a2.log.source, target,
                               Len(children(a, target)), jx, jy)
              ELSE v0
    IN landCards(v1, a2.log.commits, 1)

(* ---------------------------- magic closure ---------------------------- *)
\* What messageContainer can hold: one of three texts, or the box of the
\* message with a given index.
connectingText == [text |-> "Connecting...", index |-> -1]
endText == [text |-> "End of dialogue", index |-> -1]
errorText == [text |-> "Failed to load dialogue data", index |-> -1]
box(index) == [text |-> "message", index |-> index]

\* The closure of createMagicScene when it returns: the fetch is started
\* and not settled; dialogueData is kept by its length.
createMagicScene ==
    [destroyed |-> FALSE, fetch |-> "pending", dialogueData |-> 0,
     currentMessageIndex |-> 0, children |-> <<connectingText>>]

renderMessage(m, index) ==
    [m EXCEPT !.children = IF index >= m.dialogueData
                           THEN <<endText>>
                           ELSE <<box(index)>>]

\* the pointerdown handler of the scene
showNextMessage(m) ==
    renderMessage([m EXCEPT !.currentMessageIndex = @ + 1],
                  m.currentMessageIndex + 1)

\* The try block run to its end: the response held n messages.
fetchResolved(m, n) ==
    showNextMessage([m EXCEPT !.fetch = "settled",
                              !.dialogueData = n,
                              !.children = <<>>,
                              !.currentMessageIndex = -1])

\* The catch block: the fetch was rejected (n = 0, dialogueData is as it
\* was built), or the response was read and a later statement of the try
\* block threw after dialogueData had taken its n messages.
fetchFailed(m, n) ==
    [m EXCEPT !.fetch = "settled",
              !.dialogueData = n,
              !.children = <<errorText>>]

\* The fetch settles on a scene that was destroyed: the continuation runs
\* the same statements, none of which tests scene.destroyed.  Whether
\* removeChildren and addChild of a destroyed container go through or throw
\* is left to the library; when they throw, the catch block throws too and
\* the container is left as it is.
fetchSettled(m, ok, n, throws) ==
    IF m.destroyed /\ throws
    THEN [m EXCEPT !.fetch = "settled"]
    ELSE IF ok THEN fetchResolved(m, n) ELSE fetchFailed(m, n)

\* scene.destroy({ children: true }): the message container loses and
\* destroys its children, and the scene its listeners.
destroyMagicScene(m) == [m EXCEPT !.destroyed = TRUE, !.children = <<>>]

noMagic == [scenes |-> <<>>, log |-> [op |-> "none", scene |-> 0]]

(* ----------------------------- scene host ------------------------------ *)
fpsTickerId(sceneId) ==
    CASE sceneId = "menu" -> "fps-menu" [] sceneId = "ace" -> "fps-ace"
      [] sceneId = "magic" -> "fps-magic" [] sceneId = "phoenix" -> "fps-phoenix"

\* the fpsTicker closure made by addFpsCounter for a scene
fpsTicker(sceneId) ==
    CASE sceneId = "menu" -> "fpsTicker:menu" [] sceneId = "ace" -> "fpsTicker:ace"
      [] sceneId = "magic" -> "fpsTicker:magic"
      [] sceneId = "phoenix" -> "fpsTicker:phoenix"

\* app.ticker.add(cb); sceneTickers[key].push(cb)
register(h, key, cb) ==
    [h EXCEPT !.appTicker = @ \cup {cb},
              !.log.events = Append(@, <<"add", cb>>),
              !.sceneTickers =
                  [k \in DOMAIN @ \cup {key} |->
                      IF k \in DOMAIN @
                      THEN (IF k = key THEN Append(@[k], cb) ELSE @[k])
                      ELSE <<cb>>]]

addFpsCounter(h, sceneId) == register(h, fpsTickerId(sceneId), fpsTicker(sceneId))

\* tickers.forEach(ticker => app.ticker.remove(ticker)), as log entries
removals(tickers) == [k \in 1..Len(tickers) |-> <<"remove", tickers[k]>>]

\* "Stop all ticker animations for current scene"
stopCurrentTickers(h) ==
    IF h.current \in DOMAIN h.sceneTickers
    THEN [h EXCEPT !.appTicker = @ \ seqRange(h.sceneTickers[h.current]),
                   !.sceneTickers = [k \in DOMAIN @ \ {h.current} |-> @[k]],
                   !.log.events = @ \o removals(h.sceneTickers[h.current])]
    ELSE h

\* Variant: the scene left is destroyed and stays in the registry.
leaveCurrentKeepEntry(h) ==
    IF h.current = "none" THEN h
    ELSE LET h1 == stopCurrentTickers(h)
             h2 == IF h1.current = "phoenix"
                   THEN [h1 EXCEPT !.ph = cleanup(@),
                                   !.log.events =
                                       Append(@ \o cleanupDestroys(h1.ph),
                                              <<"cleanup", "phoenix">>)]
                   ELSE IF h1.current = "ace"
                   THEN [h1 EXCEPT !.ace = leaveAce(@),
                                   !.log.events = Append(@, <<"cleanup", "ace">>)]
                   ELSE h1
         IN IF h2.current # "menu"
            THEN [h2 EXCEPT !.log.events = Append(@, <<"destroy", h2.current>>)]
            ELSE h2

\* The first half of switchToScene: hide, stop, clean up and destroy the
\* current scene.
leaveCurrent(h) ==
    IF h.current = "none" THEN h
    ELSE LET h1 == stopCurrentTickers(h)
             h2 == IF h1.current = "phoenix"
                   THEN [h1 EXCEPT !.ph = cleanup(@),
                                   !.log.events =
                                       Append(@ \o cleanupDestroys(h1.ph),
                                              <<"cleanup", "phoenix">>)]
                   ELSE IF h1.current = "ace"
                   THEN [h1 EXCEPT !.ace = leaveAce(@),
                                   !.log.events = Append(@, <<"cleanup", "ace">>)]
                   ELSE h1
         IN IF h2.current # "menu"
            THEN [h2 EXCEPT !.scenes = @ \ {h2.current},
                            !.log.events = Append(@, <<"destroy", h2.current>>)]
            ELSE h2

\* Object.keys(sceneTickers), Object.keys(scenes): the keys that are present
TickerKeys ==
    <<"fps-menu", "fps-ace", "ace", "fps-magic", "fps-phoenix", "phoenix">>
SceneKeys == <<"menu", "ace", "magic", "phoenix">>

RECURSIVE flatten(_)
flatten(qs) == IF Len(qs) = 0 THEN <<>> ELSE Head(qs) \o flatten(Tail(qs))

\* Variant: returning to the menu sweeps nothing.
resetForMenuNothing(h, id) == h

\* "Stop all animations and clear state when returning to menu"
resetForMenu(h, id) ==
    IF id = "menu"
    THEN LET keys == SelectSeq(TickerKeys, LAMBDA k : k \in DOMAIN h.sceneTickers)
             others == SelectSeq(SceneKeys, LAMBDA k : k \in h.scenes /\ k # "menu")
         IN [h EXCEPT !.appTicker =
                       @ \ UNION {seqRange(h.sceneTickers[k]) : k \in DOMAIN h.sceneTickers},
                   !.sceneTickers = <<>>,
                   !.scenes = @ \cap {"menu"},
                   !.log.events =
                       @ \o flatten([k \in 1..Len(keys) |->
                                        removals(h.sceneTickers[keys[k]])])
                         \o [k \in 1..Len(others) |-> <<"destroy", others[k]>>]]
    ELSE h

\* Variant: an 'ace' scene is shown with the closure its predecessor left.
createOrGetKeepAce(h, id) ==
    IF id \in h.scenes /\ id = "menu" THEN h
    ELSE LET h1 == [h EXCEPT !.scenes = @ \cup {id},
                             !.log.events = Append(@, <<"create", id>>)] IN
         CASE id = "menu" -> addFpsCounter(h1, "menu")
           [] id = "ace" ->
                [register(register(addFpsCounter(h1, "ace"), "ace", "aceTicker"),
                          "ace", "animationTicker")
                    EXCEPT !.ace.log.op = "create"]
           [] id = "magic" -> addFpsCounter(h1, "magic")
           [] id = "phoenix" ->
                [register(addFpsCounter(h1, "phoenix"), "phoenix", "phoenixTicker")
                    EXCEPT !.ph = createPhoenixScene]

\* Variant: the menu is built again on every visit.
createOrGetAlwaysBuild(h, id) ==
    LET h1 == [h EXCEPT !.scenes = @ \cup {id},
                        !.log.events = Append(@, <<"create", id>>)] IN
    CASE id = "menu" -> addFpsCounter(h1, "menu")
      [] id = "ace" ->
           [register(register(addFpsCounter(h1, "ace"), "ace", "aceTicker"),
                     "ace", "animationTicker")
               EXCEPT !.ace = createAceScene]
      [] id = "magic" -> addFpsCounter(h1, "magic")
      [] id = "phoenix" ->
           [register(addFpsCounter(h1, "phoenix"), "phoenix", "phoenixTicker")
               EXCEPT !.ph = createPhoenixScene]

\* "Create or get scene"
createOrGet(h, id) ==
    IF id \in h.scenes /\ id = "menu" THEN h
    ELSE LET h1 == [h EXCEPT !.scenes = @ \cup {id},
                             !.log.events = Append(@, <<"create", id>>)] IN
         CASE id = "menu" -> addFpsCounter(h1, "menu")
           [] id = "ace" ->
                [register(register(addFpsCounter(h1, "ace"), "ace", "aceTicker"),
                          "ace", "animationTicker")
                    EXCEPT !.ace = [createAceScene EXCEPT
                                      !.log.priorRight = h.ace.log.priorRight,
                                      !.log.priorInFlight = h.ace.log.priorInFlight]]
           [] id = "magic" -> addFpsCounter(h1, "magic")
           [] id = "phoenix" ->
                [register(addFpsCounter(h1, "phoenix"), "phoenix", "phoenixTicker")
                    EXCEPT !.ph = createPhoenixScene]

switchToSceneStep(h, id) ==
    [createOrGet(resetForMenu(leaveCurrent(
         [h EXCEPT !.log = [id |-> id, from |-> h.current, events |-> <<>>]]), id), id)
        EXCEPT !.current = id]

Host ==
    [current |-> current, scenes |-> scenes, sceneTickers |-> sceneTickers,
     appTicker |-> appTicker, ph |-> PhoenixState, ace |-> ace,
     log |-> hostLog]

noFrame == [dt |-> 0, spawned |-> <<>>, removed |-> <<>>]
noOp == [op |-> "none"]

\* The state after the start-up call switchToScene('menu').
startUp ==
    switchToSceneStep([current |-> "none", scenes |-> {}, sceneTickers |-> <<>>,
                       appTicker |-> {}, ph |-> createPhoenixScene,
                       ace |-> noAce,
                       log |-> [id |-> "none", from |-> "none", events |-> <<>>]],
                      "menu")

setPhoenix(s) ==
    /\ particles' = s.particles
    /\ flameCount' = s.flameCount
    /\ baseCount' = s.baseCount
    /\ sparkCount' = s.sparkCount
    /\ baseSpawnTimer' = s.baseSpawnTimer
    /\ sparkSpawnTimer' = s.sparkSpawnTimer
    /\ spritePools' = s.spritePools
    /\ constructed' = s.constructed
    /\ destroyed' = s.destroyed

hostVars == <<current, scenes, sceneTickers, appTicker, hostLog>>

Init ==
    /\ current = startUp.current
    /\ scenes = startUp.scenes
    /\ sceneTickers = startUp.sceneTickers
    /\ appTicker = startUp.appTicker
    /\ hostLog = startUp.log
    /\ particles = <<>>
    /\ flameCount = 0 /\ baseCount = 0 /\ sparkCount = 0
    /\ baseSpawnTimer = 0 /\ sparkSpawnTimer = 0
    /\ spritePools = emptyPools
    /\ constructed = [t \in ParticleType |-> 0]
    /\ destroyed = {}
    /\ frame = noFrame
    /\ ticks = 0
    /\ held = {}
    /\ lastOp = noOp
    /\ ace = noAce
    /\ view = noView
    /\ magic = noMagic

\* A pointerdown on a button: the menu offers the three scenes, every other
\* scene offers only its Menu button.
Targets == IF current = "menu" THEN {"ace", "magic", "phoenix"} ELSE {"menu"}

switchToScene(id) ==
    /\ id \in Targets
    /\ LET h == switchToSceneStep(Host, id) IN
        /\ current' = h.current
        /\ scenes' = h.scenes
        /\ sceneTickers' = h.sceneTickers
        /\ appTicker' = h.appTicker
        /\ setPhoenix(h.ph)
        /\ ace' = h.ace
        /\ hostLog' = h.log
    /\ frame' = noFrame
    /\ ticks' = 0
    /\ UNCHANGED <<poolVars, view, magic>>

\* One frame in which app.ticker calls phoenixTicker.
phoenixTicker(deltaTime, mb1, mb2, ms) ==
    /\ "phoenixTicker" \in appTicker
    /\ ticks < MaxTicks
    /\ ticks' = ticks + 1
    /\ LET s == phoenixTickerStep(PhoenixState, deltaTime, mb1, mb2, ms) IN
        /\ setPhoenix(s)
        /\ frame' = [dt |-> deltaTime, spawned |-> s.spawned, removed |-> s.removed]
    /\ UNCHANGED <<hostVars, poolVars, ace, view, magic>>

\* One frame in which app.ticker calls aceTicker and then animationTicker,
\* the order in which createAceScene added them.
aceFrame(dt) ==
    /\ "aceTicker" \in appTicker
    /\ "animationTicker" \in appTicker
    /\ ace' = aceFrameStep(ace, dt)
    /\ UNCHANGED <<hostVars, poolVars, view, magic, frame, ticks, particles, flameCount,
                   baseCount, sparkCount, baseSpawnTimer, sparkSpawnTimer,
                   spritePools, constructed, destroyed>>

\* The menu, the magic scene and the phoenix scene.
Next ==
    \/ \E id \in SceneIds \ {"ace"} : switchToScene(id)
    \/ \E deltaTime \in Deltas, mb1, mb2 \in BaseLives, ms \in SparkLives :
           phoenixTicker(deltaTime, mb1, mb2, ms)

Spec == Init /\ [][Next]_vars

\* The menu and the card scene.
AceNext ==
    \/ \E id \in {"menu", "ace"} : switchToScene(id)
    \/ \E dt \in AceDeltas : aceFrame(dt)

AceSpec == Init /\ [][AceNext]_vars

\* The card scene left running: a frame is always due and nobody presses
\* the Menu button.
AceRunInit ==
    LET h == switchToSceneStep(startUp, "ace") IN
    /\ current = h.current
    /\ scenes = h.scenes
    /\ sceneTickers = h.sceneTickers
    /\ appTicker = h.appTicker
    /\ hostLog = h.log
    /\ ace = h.ace
    /\ view = noView
    /\ magic = noMagic
    /\ particles = <<>>
    /\ flameCount = 0 /\ baseCount = 0 /\ sparkCount = 0
    /\ baseSpawnTimer = 0 /\ sparkSpawnTimer = 0
    /\ spritePools = emptyPools
    /\ constructed = [t \in ParticleType |-> 0]
    /\ destroyed = {}
    /\ frame = noFrame
    /\ ticks = 0
    /\ held = {}
    /\ lastOp = noOp

AceRunNext == \E dt \in AceDeltas : aceFrame(dt)

AceRunSpec == AceRunInit /\ [][AceRunNext]_vars /\ WF_vars(AceRunNext)

\* switchToScene called with any id from any scene, as its signature
\* allows: the function is handed to every scene it builds.
callSwitchToScene(id) ==
    /\ fpsTickerId(id) \in DOMAIN sceneTickers
          => Len(sceneTickers[fpsTickerId(id)]) < MaxPushed
    /\ LET h == switchToSceneStep(Host, id) IN
        /\ current' = h.current
        /\ scenes' = h.scenes
        /\ sceneTickers' = h.sceneTickers
        /\ appTicker' = h.appTicker
        /\ setPhoenix(h.ph)
        /\ ace' = h.ace
        /\ hostLog' = h.log
    /\ frame' = noFrame
    /\ ticks' = 0
    /\ UNCHANGED <<poolVars, view, magic>>

HostNext == \E id \in SceneIds : callSwitchToScene(id)

HostSpec == Init /\ [][HostNext]_vars

\* Any sequence of switchToScene calls, with frames of the phoenix scene in
\* between so that a scene is left with live and with idle sprites.  The
\* frames are long ones, in which both spawn timers are due, and the
\* particles take their shortest lives.
TeardownNext ==
    \/ \E id \in SceneIds : callSwitchToScene(id)
    \/ \E deltaTime \in {d \in Deltas : d >= sparkSpawnInterval} :
           phoenixTicker(deltaTime, baseMinLife, baseMinLife, sparkMinLife)

TeardownSpec == Init /\ [][TeardownNext]_vars


(* ------------------------- pool client --------------------------------- *)
\* The sprite pool of a phoenix scene driven call by call: any sequence of
\* getPooledSprite and returnSpriteToPool, a release of a sprite that the
\* caller does not hold included.
builtSprites == {<<t, n>> : t \in ParticleType, n \in 1..MaxHandles}

PoolInit ==
    LET h == switchToSceneStep(startUp, "phoenix") IN
    /\ current = h.current
    /\ scenes = h.scenes
    /\ sceneTickers = h.sceneTickers
    /\ appTicker = h.appTicker
    /\ hostLog = h.log
    /\ particles = <<>>
    /\ flameCount = 0 /\ baseCount = 0 /\ sparkCount = 0
    /\ baseSpawnTimer = 0 /\ sparkSpawnTimer = 0
    /\ spritePools = emptyPools
    /\ constructed = [t \in ParticleType |-> 0]
    /\ destroyed = {}
    /\ frame = noFrame
    /\ ticks = 0
    /\ held = {}
    /\ lastOp = noOp
    /\ ace = noAce
    /\ view = noView
    /\ magic = noMagic

acquire(type) ==
    /\ Len(spritePools[type]) > 0 \/ constructed[type] < MaxHandles
    /\ LET g == getPooledSprite(PhoenixState, type) IN
        /\ setPhoenix(g.st)
        /\ held' = held \cup {g.sprite}
        /\ lastOp' = [op |-> "acquire", type |-> type, sprite |-> g.sprite,
                      owned |-> g.sprite \in held,
                      idle |-> Len(spritePools[type])]
    /\ UNCHANGED <<hostVars, frame, ticks, ace, view, magic>>

release(sprite) ==
    /\ sprite[2] <= constructed[sprite[1]]
    /\ Len(spritePools[sprite[1]]) < MaxPoolLen
    /\ setPhoenix(returnSpriteToPool(PhoenixState, sprite, sprite[1]))
    /\ held' = held \ {sprite}
    /\ lastOp' = [op |-> "release", type |-> sprite[1], sprite |-> sprite,
                  owned |-> sprite \in held,
                  idle |-> Len(spritePools[sprite[1]])]
    /\ UNCHANGED <<hostVars, frame, ticks, ace, view, magic>>

PoolNext ==
    \/ \E type \in ParticleType : acquire(type)
    \/ \E sprite \in builtSprites : release(sprite)

PoolSpec == PoolInit /\ [][PoolNext]_vars


(* ------------------------- spawn client -------------------------------- *)
\* spawnParticle of a phoenix scene called directly, at the cap included:
\* the ticker tests particles.length itself before every call it makes.
minLife(type) ==
    CASE type = FLAME -> flameLife [] type = BASE -> baseMinLife
      [] type = SPARK -> sparkMinLife

spawn(type) ==
    /\ Len(particles) <= maxSprites
    /\ setPhoenix(spawnParticle(PhoenixState, type, minLife(type)))
    /\ lastOp' = [op |-> "spawn", type |-> type, length |-> Len(particles)]
    /\ UNCHANGED <<hostVars, frame, ticks, held, ace, view, magic>>

SpawnNext == \E type \in ParticleType : spawn(type)

SpawnSpec == PoolInit /\ [][SpawnNext]_vars


(* ------------------------------- resize -------------------------------- *)
\* cards carried to the right deck before the frames stop
MaxMoves == 1

\* A scene on screen while the window is resized.  Either the phoenix scene
\* after its first tick, its particles drifted from where they were spawned,
\* or the card scene as built, which then runs frame by frame.
ResizeInit ==
    /\ held = {}
    /\ magic = noMagic
    /\ lastOp = noOp
    /\ \/ \E size \in Sizes, deltaTime \in Deltas :
            LET h == switchToSceneStep(startUp, "phoenix")
                s == phoenixTickerStep(h.ph, deltaTime, baseMinLife, baseMinLife,
                                       sparkMinLife)
            IN /\ current = h.current
               /\ scenes = h.scenes
               /\ sceneTickers = h.sceneTickers
               /\ appTicker = h.appTicker
               /\ hostLog = h.log
               /\ ace = h.ace
               /\ particles = s.particles
               /\ flameCount = s.flameCount
               /\ baseCount = s.baseCount
               /\ sparkCount = s.sparkCount
               /\ baseSpawnTimer = s.baseSpawnTimer
               /\ sparkSpawnTimer = s.sparkSpawnTimer
               /\ spritePools = s.spritePools
               /\ constructed = s.constructed
               /\ destroyed = s.destroyed
               /\ frame = [dt |-> deltaTime, spawned |-> s.spawned,
                           removed |-> s.removed]
               /\ ticks = 1
               /\ \E d \in [{s.particles[i].sprite : i \in 1..Len(s.particles)}
                               -> Drifts] :
                      view = phoenixLayout(size, s.particles, d)
       \/ \E size \in Sizes :
            LET h == switchToSceneStep(startUp, "ace")
            IN /\ current = h.current
               /\ scenes = h.scenes
               /\ sceneTickers = h.sceneTickers
               /\ appTicker = h.appTicker
               /\ hostLog = h.log
               /\ ace = h.ace
               /\ particles = <<>>
               /\ flameCount = 0 /\ baseCount = 0 /\ sparkCount = 0
               /\ baseSpawnTimer = 0 /\ sparkSpawnTimer = 0
               /\ spritePools = emptyPools
               /\ constructed = [t \in ParticleType |-> 0]
               /\ destroyed = {}
               /\ frame = noFrame
               /\ ticks = 0
               /\ view = aceLayout(size)

\* The window is resized: the renderer takes the new size and the resize
\* listener of the scene on screen runs.  (The listeners of the FPS text and
\* of the Menu button place those two, which are not followed.)
resize(size) ==
    /\ current \in {"phoenix", "ace"}
    /\ view' = LET v == [view EXCEPT !.renderer = size,
                                     !.log = [noViewLog EXCEPT
                                                !.op = "resize",
                                                !.from = view.renderer]]
               IN IF current = "phoenix"
                  THEN phoenixResizeHandler(v, particles)
                  ELSE aceResizeHandler(v)
    /\ UNCHANGED <<hostVars, poolVars, ace, magic, frame, ticks, particles, flameCount,
                   baseCount, sparkCount, baseSpawnTimer, sparkSpawnTimer,
                   spritePools, constructed, destroyed>>

\* One frame of the card scene with the positions it writes.
aceFrameLaidOut(dt, jx, jy) ==
    /\ "aceTicker" \in appTicker
    /\ "animationTicker" \in appTicker
    /\ Len(ace.rightDeck) < MaxMoves
    /\ LET a2 == aceFrameStep(ace, dt) IN
        /\ ace' = a2
        /\ view' = aceFrameLayout(view, ace, a2, jx, jy)
    /\ UNCHANGED <<hostVars, poolVars, magic, frame, ticks, particles, flameCount,
                   baseCount, sparkCount, baseSpawnTimer, sparkSpawnTimer,
                   spritePools, constructed, destroyed>>

ResizeNext ==
    \/ \E size \in Sizes : resize(size)
    \/ \E dt \in AceDeltas, jx, jy \in Jitters : aceFrameLaidOut(dt, jx, jy)

ResizeSpec == ResizeInit /\ [][ResizeNext]_vars


(* ------------------------------ dialogue ------------------------------- *)
\* magic scenes built in one run, and the longest dialogue in a response
MaxVisits == 2
MaxMessages == 2

\* A pointerdown on a button of the menu or of the magic scene: the host
\* switches, and the magic scene it destroys or builds is followed.  The
\* scene destroyed is the one built last.
magicSwitch(id) ==
    /\ id \in Targets \cap {"menu", "magic"}
    /\ id = "magic" => Len(magic.scenes) < MaxVisits
    /\ LET h == switchToSceneStep(Host, id)
           ev == seqRange(h.log.events)
           left == IF <<"destroy", "magic">> \in ev
                   THEN [magic.scenes EXCEPT ![Len(magic.scenes)] =
                                                 destroyMagicScene(@)]
                   ELSE magic.scenes
       IN /\ current' = h.current
          /\ scenes' = h.scenes
          /\ sceneTickers' = h.sceneTickers
          /\ appTicker' = h.appTicker
          /\ setPhoenix(h.ph)
          /\ ace' = h.ace
          /\ hostLog' = h.log
          /\ magic' = [scenes |-> IF <<"create", "magic">> \in ev
                                  THEN Append(left, createMagicScene)
                                  ELSE left,
                       log |-> [op |-> "switch", scene |-> Len(magic.scenes)]]
    /\ frame' = noFrame
    /\ ticks' = 0
    /\ UNCHANGED <<poolVars, view>>

\* A pointerdown on the magic scene on screen.
click ==
    /\ current = "magic"
    /\ magic.scenes[Len(magic.scenes)].currentMessageIndex <= MaxMessages
    /\ magic' = [scenes |-> [magic.scenes EXCEPT ![Len(magic.scenes)] =
                                                     showNextMessage(@)],
                 log |-> [op |-> "click", scene |-> Len(magic.scenes)]]
    /\ UNCHANGED <<hostVars, poolVars, ace, view, frame, ticks, particles,
                   flameCount, baseCount, sparkCount, baseSpawnTimer,
                   sparkSpawnTimer, spritePools, constructed, destroyed>>

\* The fetch of the i-th magic scene settles.
settle(i, ok, n, throws) ==
    /\ i \in 1..Len(magic.scenes)
    /\ magic.scenes[i].fetch = "pending"
    /\ magic' = [scenes |-> [magic.scenes EXCEPT ![i] =
                                 fetchSettled(@, ok, n, throws)],
                 log |-> [op |-> IF ok THEN "resolved" ELSE "rejected",
                          scene |-> i]]
    /\ UNCHANGED <<hostVars, poolVars, ace, view, frame, ticks, particles,
                   flameCount, baseCount, sparkCount, baseSpawnTimer,
                   sparkSpawnTimer, spritePools, constructed, destroyed>>

MagicNext ==
    \/ \E id \in SceneIds : magicSwitch(id)
    \/ click
    \/ \E i \in 1..MaxVisits, ok, throws \in BOOLEAN, n \in 0..MaxMessages :
           settle(i, ok, n, throws)

MagicSpec == Init /\ [][MagicNext]_vars


(* ------------------------------ claims --------------------------------- *)
live(type) == {i \in 1..Len(particles) : particles[i].type = type}
ownedOf(type) == Cardinality(live(type))
idleOf(type) == Len(spritePools[type])
frameSpawned == {frame.spawned[k] : k \in 1..Len(frame.spawned)}
frameRemoved == {frame.removed[k] : k \in 1..Len(frame.removed)}
phoenixRunning == current = "phoenix" /\ "phoenixTicker" \in appTicker

\* C1: in the phoenix scene the number of live particles is at most 10
\* after every tick, whatever the frame deltas were.
C1_ParticleCap == Len(particles) <= 10

\* A tick has left the largest population the scheduling allows.
C1_Witness == phoenixRunning /\ frame.dt > 0 /\ Len(particles) = 8

\* C2: once the first tick has run and until the scene is torn down, exactly
\* one Flame particle exists whenever there is any live particle.
C2_SingleFlame ==
    (phoenixRunning /\ ticks > 0 /\ Len(particles) > 0) => ownedOf(FLAME) = 1

\* Several ticks have run, particles have died and the Flame is still alone.
C2_Witness ==
    /\ phoenixRunning /\ ticks >= 3 /\ frame.removed # <<>>
    /\ Len(particles) > 1 /\ ownedOf(FLAME) = 1

\* C3: at every tick at most 3 Base and at most 4 Spark particles are live;
\* a timed spawn of a type happens only when the timer of that type has
\* reached its interval (0.2 s Base, 0.5 s Spark), and that timer is 0
\* afterwards.
C3_TypeLimits ==
    /\ ownedOf(BASE) <= 3
    /\ ownedOf(SPARK) <= 4
    /\ \A e \in frameSpawned :
          e.cause = "timed" =>
             /\ e.type = BASE => e.timer >= baseSpawnInterval /\ baseSpawnTimer = 0
             /\ e.type = SPARK => e.timer >= sparkSpawnInterval /\ sparkSpawnTimer = 0

\* One frame made a timed Base spawn and a timed Spark spawn that filled
\* both per-type limits.
C3_Witness ==
    /\ \E e \in frameSpawned : e.cause = "timed" /\ e.type = BASE
    /\ \E e \in frameSpawned : e.cause = "timed" /\ e.type = SPARK
    /\ ownedOf(BASE) = 3 /\ ownedOf(SPARK) = 4

\* C4: a Base particle spawned with maxLife = M is removed in the first tick
\* at which the deltas accumulated since its spawn (the spawning tick
\* included) reach M, and is never removed while its life is above 0.
C4_BaseLifetime ==
    /\ \A i \in live(BASE) : particles[i].age < particles[i].maxLife
    /\ \A r \in frameRemoved :
          r.type = BASE =>
             /\ r.life <= 0
             /\ r.age >= r.maxLife
             /\ r.age - frame.dt < r.maxLife

\* A Base particle was removed by a frame that overshot its maxLife.
C4_Witness == \E r \in frameRemoved : r.type = BASE /\ r.age > r.maxLife

allHandles ==
    [k \in 1..Len(particles) |-> particles[k].sprite]
        \o spritePools[BASE] \o spritePools[FLAME] \o spritePools[SPARK]

C6_OnePlace ==
    \A j, k \in 1..Len(allHandles) : allHandles[j] = allHandles[k] => j = k

\* A frame spawned a particle on a sprite taken back out of the pool.
C6_Witness == \E e \in frameSpawned : e.reused

\* C7: getPooledSprite returns the top of the idle list of its kind when the
\* list is non-empty, shrinking it by one, and builds a new sprite only when
\* the list is empty; it leaves the idle lists of the other kinds alone.
C7_AcquireContract ==
    [][lastOp'.op = "acquire" =>
        LET type == lastOp'.type
            pool == spritePools[type] IN
        /\ Len(pool) > 0 =>
              /\ lastOp'.sprite = pool[Len(pool)]
              /\ spritePools'[type] = SubSeq(pool, 1, Len(pool) - 1)
              /\ constructed' = constructed
        /\ Len(pool) = 0 =>
              /\ constructed'[type] = constructed[type] + 1
              /\ lastOp'.sprite = <<type, constructed'[type]>>
              /\ spritePools'[type] = pool
        /\ \A u \in ParticleType \ {type} :
              spritePools'[u] = spritePools[u] /\ constructed'[u] = constructed[u]
      ]_vars

\* An acquire took a sprite from a non-empty idle list while another kind
\* had idle sprites too.
C7_Witness ==
    /\ lastOp.op = "acquire" /\ lastOp.idle > 0
    /\ \E u \in ParticleType \ {lastOp.type} : idleOf(u) > 0

\* C8: releasing a sprite that is not currently owned is a no-op: the idle
\* lists are unchanged and the sprite is not appended a second time.
C8_ReleaseUnownedNoOp ==
    [][(lastOp'.op = "release" /\ ~lastOp'.owned) => spritePools' = spritePools]_vars

\* C9: a sprite acquired as kind K is only ever released into the idle list
\* of kind K: every idle list holds only sprites built for its kind.
C9_NoKindCrossing ==
    /\ \A t \in ParticleType : \A k \in 1..Len(spritePools[t]) :
          spritePools[t][k][1] = t
    /\ \A i \in 1..Len(particles) : particles[i].sprite[1] = particles[i].type

\* Dead Base and dead Spark particles have both released their sprites.
C9_Witness == idleOf(BASE) > 0 /\ idleOf(SPARK) > 0

\* C10: no pooled sprite is destroyed while the phoenix scene runs; a
\* particle that dies has its sprite put in the idle list of its type.
C10_NoDestroyWhileRunning ==
    phoenixRunning =>
        /\ destroyed = {}
        /\ \A r \in frameRemoved :
              \E k \in 1..Len(spritePools[r.type]) : spritePools[r.type][k] = r.sprite

\* A frame of the running scene removed a dead particle.
C10_Witness == phoenixRunning /\ frame.removed # <<>> /\ idleOf(SPARK) > 0

(* --------------------------- claims: card scene ------------------------ *)
aceRunning == current = "ace" /\ "aceTicker" \in appTicker
inFlight == Len(ace.activeCardAnimations)
aceFrameDone == aceRunning /\ ace.log.op = "frame"

\* C11: in the card scene at most one CardTransfer is active and at most
\* one card is in flight at any time: activeCardAnimations holds 0 or 1
\* entries, and no more than one card is off the decks.
C11_SingleTransfer ==
    /\ inFlight <= 1
    /\ Cardinality(ace.animatingCards) <= 1
    /\ Cardinality(ace.stage) <= 1

\* A frame in which the move timer was due but a transfer was under way,
\* and still is.
C11_Witness ==
    /\ aceFrameDone
    /\ ace.log.activeBefore = 1
    /\ ace.log.sinceBefore >= moveInterval
    /\ inFlight = 1

commits == seqRange(ace.log.commits)
Decks == {LEFT, RIGHT}

\* C12: when a transfer completes, the card is added to the destination
\* stack with a z-order one above the highest z-order that stack held just
\* before the commit (0 when the stack was empty), and the transfer has left
\* the active list by the end of the same frame.
C12_CommitOnTop ==
    \A c \in commits :
        /\ ace.zIndex[c.card] = c.priorMax + 1
        /\ c.priorLen = 0 => ace.zIndex[c.card] = 0
        /\ Len(children(ace, c.deck)) = c.priorLen + 1
        /\ children(ace, c.deck)[c.priorLen + 1] = c.card
        /\ \A k \in 1..inFlight : ace.activeCardAnimations[k].card # c.card

\* A commit onto a stack that already held cards.
C12_Witness ==
    /\ aceFrameDone
    /\ \E c \in commits : c.priorLen > 0 /\ c.priorMax > 0 /\ c.deck = LEFT

\* C13: while the card scene runs, the cached top card of each stack is the
\* card a full scan of the stack finds (the member with the highest
\* z-order), and it is null exactly when the stack is empty.
C13_TopCacheExact ==
    aceRunning =>
        \A deck \in Decks :
            IF Len(children(ace, deck)) = 0
            THEN getTopCard(ace, deck) = null
            ELSE getTopCard(ace, deck) = scanTopCard(ace, deck)

\* A frame that popped a card from a stack that keeps other cards, while
\* the other stack holds cards too.
C13_Witness ==
    /\ aceFrameDone
    /\ ace.log.started
    /\ ace.log.sourceLen > 1
    /\ Len(ace.leftDeck) > 0 /\ Len(ace.rightDeck) > 0

\* C14: within each stack the z-order strictly increases with the order of
\* insertion, so the card inserted last has the highest z-order, is the
\* cached top, and is the card the next pop removes.
C14_InsertionOrder ==
    /\ \A deck \in Decks :
          LET ch == children(ace, deck) IN
          /\ \A i \in 1..(Len(ch) - 1) : ace.zIndex[ch[i]] < ace.zIndex[ch[i + 1]]
          /\ (aceRunning /\ Len(ch) > 0) => getTopCard(ace, deck) = ch[Len(ch)]
    /\ ace.log.started => ace.log.wasLast

\* A pop from the right stack while both stacks hold several cards.
C14_Witness ==
    /\ aceFrameDone
    /\ ace.log.started /\ ace.log.source = RIGHT
    /\ Len(ace.rightDeck) > 1 /\ Len(ace.leftDeck) > 1

aceCreated == aceRunning /\ ace.log.op = "create"

\* C15: a freshly created card scene has all 144 cards in the left stack
\* with z-order equal to their insertion index 0..143, an empty right stack,
\* the left cache on the card with z-order 143, a null right cache and no
\* active transfer.
C15_FreshScene ==
    aceCreated =>
        /\ Len(ace.leftDeck) = 144
        /\ \A i \in 1..144 : ace.zIndex[ace.leftDeck[i]] = i - 1
        /\ \A i, j \in 1..144 : ace.leftDeck[i] = ace.leftDeck[j] => i = j
        /\ ace.rightDeck = <<>>
        /\ ace.leftTopCard # null /\ ace.zIndex[ace.leftTopCard] = 143
        /\ ace.leftTopCard = ace.leftDeck[144]
        /\ ace.rightTopCard = null
        /\ inFlight = 0 /\ ace.animatingCards = {}

\* The card scene right after its first creation from the menu.
C15_Witness ==
    /\ aceCreated
    /\ ace.log.priorRight = 0 /\ ace.log.priorInFlight = 0
    /\ "fpsTicker:ace" \in appTicker

firstCommit == \E c \in commits : c.first

\* C16: starting from [144, 0], at the end of the frame in which the first
\* transfer completes the stacks are [143, 1] and no CardTransfer is active.
C16_FirstTransfer ==
    (aceFrameDone /\ firstCommit) =>
        /\ Len(ace.leftDeck) = 143
        /\ Len(ace.rightDeck) = 1
        /\ inFlight = 0
        /\ ace.animatingCards = {} /\ ace.stage = {}

\* The frame that completes the first transfer of a scene.
C16_Witness ==
    /\ aceFrameDone /\ firstCommit
    /\ ace.rightDeck = <<143>>

transferStarted == aceFrameDone /\ ace.log.started

\* C17: with frames that keep coming, a clock that advances and no scene
\* switch, transfers go left to right until the left stack is empty, then
\* right to left until the right stack is empty, and so on forever: every
\* transfer leaves the stack the direction names, the direction changes
\* only in a frame that found the stack it was taking from empty, each
\* stack holds all 144 cards again and again, and a transfer always starts
\* again.
C17_PingPong ==
    /\ [](transferStarted => (ace.log.source = LEFT <=> ace.movingLeftToRight))
    /\ [](ace.log.flipped => ace.log.sourceEmpty)
    /\ [][(ace.movingLeftToRight /\ ~ace'.movingLeftToRight)
              => (Len(ace.leftDeck) = 0 /\ Len(ace.rightDeck) = 144)]_vars
    /\ [][(~ace.movingLeftToRight /\ ace'.movingLeftToRight)
              => (Len(ace.rightDeck) = 0 /\ Len(ace.leftDeck) = 144)]_vars
    /\ []<>(Len(ace.rightDeck) = 144)
    /\ []<>(Len(ace.leftDeck) = 144)
    /\ []<>transferStarted

\* The frame that turns the direction back to left-to-right after all
\* cards came back to the left stack, and starts the next transfer.
C17_Witness ==
    /\ transferStarted
    /\ ace.log.flipped /\ ace.movingLeftToRight
    /\ Len(ace.leftDeck) = 143 /\ Len(ace.rightDeck) = 0

\* the step is a frame of the running card scene
aceFrameTaken == aceRunning /\ aceRunning' /\ ace'.log.op = "frame"

\* now - lastMoveTime as the frame being taken sees it
sinceSeen == saturate(ace.sinceLastMove + ace'.log.dt)

moveDue == inFlight = 0 /\ sinceSeen >= moveInterval

\* C18: a new CardTransfer is created only in a frame that begins with no
\* transfer active and with at least the move interval elapsed since the
\* previous transfer was created (since scene creation for the first one);
\* in every other frame aceTicker leaves the direction and the move timer as
\* they were and changes no stack and no cache: a stack or cache changes
\* only where animationTicker commits a card.
C18_OnlyWhenDue ==
    [][aceFrameTaken =>
          /\ ace'.log.started => moveDue
          /\ ace'.log.passedGuards => moveDue
          /\ ~moveDue =>
                /\ ace'.movingLeftToRight = ace.movingLeftToRight
                /\ ace'.sinceLastMove = sinceSeen
                /\ \A deck \in Decks :
                      (\A k \in 1..Len(ace'.log.commits) :
                           ace'.log.commits[k].deck # deck)
                      => /\ children(ace', deck) = children(ace, deck)
                         /\ getTopCard(ace', deck) = getTopCard(ace, deck)]_vars

\* A frame that found no transfer active but the move interval not yet
\* elapsed, and started nothing.
C18_Witness ==
    /\ aceFrameDone
    /\ ace.log.activeBefore = 0
    /\ ace.log.sinceBefore < moveInterval
    /\ ~ace.log.started
    /\ Len(ace.leftDeck) = 144

\* C19: while the card scene runs, the two stacks are not both empty when
\* no transfer is active; a transfer that starts pops exactly one card from
\* a non-empty source stack; aceTicker never gets to the pop with a null
\* top card.
C19_SourceNeverMissing ==
    aceRunning =>
        /\ inFlight = 0 => Len(ace.leftDeck) + Len(ace.rightDeck) > 0
        /\ ace.log.started =>
              /\ ace.log.sourceLen > 0
              /\ ace.log.card # null
              /\ Len(children(ace, ace.log.source)) = ace.log.sourceLen - 1
              /\ \A k \in 1..Len(children(ace, ace.log.source)) :
                     children(ace, ace.log.source)[k] # ace.log.card
        /\ ~ace.log.nullTop

\* The pop of the last card of a stack: the source is left empty while the
\* card is in flight.
C19_Witness ==
    /\ transferStarted
    /\ ace.log.sourceLen = 1
    /\ ace.log.source = RIGHT
    /\ inFlight = 1

canonical(a) ==
    /\ Len(a.leftDeck) = 144
    /\ \A i, j \in 1..144 : a.leftDeck[i] = a.leftDeck[j] => i = j
    /\ a.rightDeck = <<>>
    /\ a.activeCardAnimations = <<>>
    /\ a.animatingCards = {} /\ a.stage = {}
    /\ a.movingLeftToRight
    /\ a.sinceLastMove = 0

\* C20: leaving the card scene destroys it, and switching to 'ace' again
\* gives the canonical initial state whatever the state was before: all 144
\* cards in the left stack, none in the right stack, no active transfer,
\* direction left to right.
C20_RecreateCanonical ==
    [][/\ (current = "ace" /\ current' # "ace")
            => ("ace" \notin scenes' /\ "aceTicker" \notin appTicker'
                /\ "animationTicker" \notin appTicker')
       /\ (current # "ace" /\ current' = "ace")
            => ("ace" \in scenes' /\ canonical(ace'))]_vars

\* A card scene created after one that was left in mid-transfer with cards
\* on the right stack.
C20_Witness ==
    /\ aceCreated
    /\ ace.log.priorRight > 1
    /\ ace.log.priorInFlight = 1

aceLeft == current = "ace" /\ current' # "ace"

\* C21: a scene switch while a CardTransfer is in flight discards the
\* transfer without any effect of a completion: the active list is emptied,
\* the card in flight is taken off the stage, it is on neither stack, keeps
\* its z-order and is not destroyed with the decks, no commit happens, the
\* top-card caches stay as they were, and the closure that was left is
\* never changed by a later frame.
C21_DiscardInFlight ==
    [][/\ (aceLeft /\ inFlight > 0) =>
             LET card == ace.activeCardAnimations[1].card IN
             /\ ace'.activeCardAnimations = <<>>
             /\ ace'.animatingCards = {}
             /\ card \notin ace'.stage
             /\ card \notin seqRange(ace'.leftDeck) \cup seqRange(ace'.rightDeck)
             /\ card \notin ace'.cardDestroyed
             /\ ace'.zIndex = ace.zIndex
             /\ ace'.log.commits = <<>>
             /\ ace'.leftTopCard = ace.leftTopCard
             /\ ace'.rightTopCard = ace.rightTopCard
             /\ "aceTicker" \notin appTicker'
             /\ "animationTicker" \notin appTicker'
       /\ (current # "ace" /\ current' # "ace") => ace' = ace]_vars

\* The menu right after a card scene was left with a card in flight.
C21_Witness ==
    /\ current = "menu"
    /\ ace.log.op = "teardown"
    /\ ace.log.priorInFlight = 1
    /\ ace.activeCardAnimations = <<>>

(* --------------------------- claims: scene host ------------------------ *)
NonMenu == {"ace", "magic", "phoenix"}

\* the callbacks a scene adds to app.ticker when it is built
callbacksOf(X) ==
    CASE X = "menu" -> {fpsTicker("menu")}
      [] X = "ace" -> {fpsTicker("ace"), "aceTicker", "animationTicker"}
      [] X = "magic" -> {fpsTicker("magic")}
      [] X = "phoenix" -> {fpsTicker("phoenix"), "phoenixTicker"}

events == seqRange(hostLog.events)

\* C22: for every target id, a switchToScene call made while a non-menu
\* scene X is active destroys X and removes it from the registry, and after
\* the call no callback that X added to the ticker, its FPS callback
\* included, is still registered.  (Where the target is X itself the new
\* instance is in the registry and its callbacks are registered, so only
\* the destruction is required.)
C22_LeftSceneUnregistered ==
    hostLog.from \in NonMenu =>
        /\ <<"destroy", hostLog.from>> \in events
        /\ hostLog.id # hostLog.from =>
              /\ hostLog.from \notin scenes
              /\ callbacksOf(hostLog.from) \cap appTicker = {}

\* C23: after switchToScene('menu') has returned, whatever the state it was
\* called in, the registry holds no scene but the menu and no callback that
\* a non-menu scene added is left on the app ticker.
C23_MenuSweepsAll ==
    hostLog.id = "menu" =>
        /\ current = "menu"
        /\ scenes = {"menu"}
        /\ \A X \in NonMenu : callbacksOf(X) \cap appTicker = {}
        /\ \A k \in DOMAIN sceneTickers :
               seqRange(sceneTickers[k]) \subseteq callbacksOf("menu")

\* A return to the menu from the magic scene that sweeps an FPS callback
\* left behind by an ace scene destroyed earlier.
C23_Witness ==
    /\ hostLog.id = "menu" /\ hostLog.from = "magic"
    /\ <<"remove", fpsTicker("ace")>> \in events
    /\ <<"remove", fpsTicker("magic")>> \in events

freshPhoenix ==
    /\ particles = <<>>
    /\ flameCount = 0 /\ baseCount = 0 /\ sparkCount = 0
    /\ baseSpawnTimer = 0 /\ sparkSpawnTimer = 0
    /\ spritePools = emptyPools

C25_UnregisterBeforeDestroy ==
    \A p \in 1..Len(hostLog.events) :
        hostLog.events[p][1] = "destroy" =>
            /\ \A q \in (p + 1)..Len(hostLog.events) :
                   hostLog.events[q][1] = "remove"
                       => hostLog.events[q][2] \notin callbacksOf(hostLog.events[p][2])
            /\ hostLog.events[p][2] # hostLog.id
                   => callbacksOf(hostLog.events[p][2]) \cap appTicker = {}

(* --------------------------- claims: resize ---------------------------- *)
\* C26: a resize of the phoenix scene that moves the emitter by (dx, dy)
\* adds exactly (dx, dy) to the position of every live particle that is not
\* the Flame, puts the Flame exactly at the new emitter position, and
\* leaves the particle list with its lives, the counters, the spawn timers
\* and the pools as they were.
C26_ResizeShiftsParticles ==
    [][current = "phoenix" /\ view'.log.op = "resize" =>
         LET dx == view'.emitterX - view.emitterX
             dy == view'.emitterY - view.emitterY
         IN /\ \A i \in 1..Len(particles) :
                  LET sp == particles[i].sprite IN
                  view'.sprite[sp] =
                      IF particles[i].type = FLAME
                      THEN [x |-> view'.emitterX, y |-> view'.emitterY]
                      ELSE [x |-> view.sprite[sp].x + dx,
                            y |-> view.sprite[sp].y + dy]
            /\ DOMAIN view'.sprite = DOMAIN view.sprite
            /\ UNCHANGED <<particles, flameCount, baseCount, sparkCount,
                           baseSpawnTimer, sparkSpawnTimer, spritePools,
                           constructed, destroyed>>]_vars

\* a resize has moved the emitter of a phoenix scene that shows the Flame,
\* Base particles and a Spark
C26_Witness ==
    /\ current = "phoenix"
    /\ view.log.op = "resize"
    /\ view.log.offsetX # 0
    /\ view.log.offsetY # 0
    /\ \A type \in ParticleType :
           \E i \in 1..Len(particles) :
               /\ particles[i].type = type
               /\ particles[i].sprite \in DOMAIN view.sprite

\* the positions a resize listener may write
layout(v) ==
    [emitterX |-> v.emitterX, emitterY |-> v.emitterY, sprite |-> v.sprite,
     deck |-> v.deck, card |-> v.card, anim |-> v.anim]

phoenixTick == phoenixRunning /\ phoenixRunning' /\ frame'.dt > 0

flames == {particles[i] : i \in live(FLAME)}

\* C28: on every tick with a positive delta the life accumulator of the
\* Flame particle is strictly greater after the tick than before it.
C28_FlameLifeGrows ==
    [][phoenixTick =>
          \A f \in flames : \A g \in flames' :
              g.sprite = f.sprite => g.life > f.life]_vars

\* C29: on every tick with a positive delta the life of every particle
\* other than the Flame strictly decreases, by the delta, whether the tick
\* keeps the particle or removes it; the Flame is kept by every tick and is
\* in the live list after every tick of the running scene.
C29_AgingButFlame ==
    /\ []((phoenixRunning /\ frame.dt > 0) => flames # {})
    /\ [][phoenixTick =>
             \A i \in 1..Len(particles) :
                LET p == particles[i]
                    after == {q \in seqRange(particles') \cup seqRange(frame'.removed) :
                                 q.sprite = p.sprite}
                IN /\ after # {}
                   /\ p.type = FLAME => after \subseteq seqRange(particles')
                   /\ p.type # FLAME =>
                         \A q \in after : q.life = p.life - frame'.dt /\ q.life < p.life
                   /\ \A q \in after \cap seqRange(frame'.removed) : q.life <= 0]_vars

\* A tick that removed a dead particle and kept the Flame and a Spark.
C29_Witness ==
    /\ phoenixRunning /\ frame.dt > 0
    /\ \E r \in frameRemoved : r.type # FLAME
    /\ flames # {}
    /\ ownedOf(SPARK) > 0

\* C30: a spawnParticle call made with the live list at the cap returns
\* without effect: the particle list, the per-type counters and the idle
\* lists are unchanged and no sprite is taken from a pool or built.
C30_SpawnAtCapDropped ==
    [][(lastOp'.op = "spawn" /\ Len(particles) >= maxSprites) =>
          /\ particles' = particles
          /\ flameCount' = flameCount
          /\ baseCount' = baseCount
          /\ sparkCount' = sparkCount
          /\ spritePools' = spritePools
          /\ constructed' = constructed]_vars

\* A spawn attempt made with ten live particles.
C30_Witness ==
    /\ lastOp.op = "spawn"
    /\ lastOp.length = 10
    /\ Len(particles) = 10

(* ------------------------ claims: card accounting ---------------------- *)
\* the cards of the active transfers
flying == {ace.activeCardAnimations[k].card : k \in 1..Len(ace.activeCardAnimations)}

\* C33: while the card scene runs, each of the 144 cards is in exactly one
\* of the left stack, the right stack or an active transfer, so that
\* |Left| + |Right| + (number in flight) = 144, and animatingCards is the
\* set of the cards of the active transfers.
C33_CardsConserved ==
    aceRunning =>
        /\ Len(ace.leftDeck) + Len(ace.rightDeck) + inFlight = NUM_SPRITES
        /\ \A c \in Cards :
               Cardinality({k \in 1..Len(ace.leftDeck) : ace.leftDeck[k] = c})
             + Cardinality({k \in 1..Len(ace.rightDeck) : ace.rightDeck[k] = c})
             + Cardinality({k \in 1..Len(ace.activeCardAnimations) :
                                ace.activeCardAnimations[k].card = c}) = 1
        /\ ace.animatingCards = flying

\* a card is in flight from the right stack back to the left one, with
\* cards on both stacks
C33_Witness ==
    /\ aceRunning
    /\ inFlight = 1
    /\ ~ace.movingLeftToRight
    /\ Len(ace.leftDeck) > 0
    /\ Len(ace.rightDeck) > 0

\* the zIndex values of the cards of a stack
zOf(deck) == {ace.zIndex[children(ace, deck)[k]] : k \in 1..Len(children(ace, deck))}

\* C34: while the card scene runs, the zIndex values of a stack of n cards
\* are exactly 0..n-1, each held by one card, also after the direction
\* has flipped and cards come back to a stack that had been emptied.
C34_DenseZOrder ==
    aceRunning =>
        \A deck \in Decks :
            /\ zOf(deck) = 0..(Len(children(ace, deck)) - 1)
            /\ \A j, k \in 1..Len(children(ace, deck)) :
                   ace.zIndex[children(ace, deck)[j]] = ace.zIndex[children(ace, deck)[k]]
                       => j = k

\* cards have come back to the left stack after it had been emptied
C34_Witness ==
    /\ aceRunning
    /\ ~ace.movingLeftToRight
    /\ Len(ace.leftDeck) >= 2
    /\ Len(ace.rightDeck) >= 2
    /\ inFlight = 0

(* ------------------------ claims: allocation --------------------------- *)
\* C35: over any sequence of frames of a phoenix scene the particle list
\* never holds more than 8 particles (1 Flame, 3 Base, 4 Spark), inside a
\* tick included, so no spawn meets the cap of 10; and the scene builds at
\* most 1 Flame sprite, 3 Base sprites and 4 Spark sprites.
C35_NoAllocationAfterWarmUp ==
    /\ Len(particles) + Len(frame.removed) <= 1 + maxBase + maxSpark
    /\ \A e \in frameSpawned : e.length < 1 + maxBase + maxSpark
    /\ 1 + maxBase + maxSpark < maxSprites
    /\ constructed[FLAME] <= 1
    /\ constructed[BASE] <= maxBase
    /\ constructed[SPARK] <= maxSpark

\* every sprite the scene will ever build has been built, and a tick has
\* just reused an idle one instead of building another
C35_Witness ==
    /\ phoenixRunning
    /\ constructed = [t \in ParticleType |->
                         CASE t = FLAME -> 1 [] t = BASE -> maxBase
                           [] t = SPARK -> maxSpark]
    /\ \E e \in frameSpawned : e.reused

(* ------------------------ claims: menu callback ------------------------ *)
\* C36: whenever the menu is the active scene, the FPS callback that the
\* menu scene registered when it was built is registered with the app
\* ticker; a return to the menu from another scene does not remove it.
C36_MenuFpsKept ==
    current = "menu" =>
        /\ fpsTicker("menu") \in appTicker
        /\ fpsTickerId("menu") \in DOMAIN sceneTickers

(* ------------------------ claims: release once ------------------------- *)
\* the step is a switchToScene call
called == ticks' = 0 /\ frame' = noFrame

\* the scene destroyed by entry p of the call's events was in the registry
\* at that moment: built earlier in the call and not destroyed since, or in
\* the registry when the call began and not destroyed before p
liveBefore(ev, p, before) ==
    LET X == ev[p][2]
        earlier == {q \in 1..(p - 1) :
                       /\ ev[q][1] \in {"create", "destroy"}
                       /\ ev[q][2] = X}
    IN IF earlier = {} THEN X \in before
       ELSE ev[CHOOSE q \in earlier : \A r \in earlier : r <= q][1] = "create"

\* C32: over any sequence of switchToScene calls, a scene instance is
\* destroyed only while it is in the registry and leaves the registry with
\* it, so no instance is destroyed twice; no sprite of a phoenix scene is
\* destroyed twice; and the registry holds at most the menu and one other
\* scene, which is the current one.
C32_ReleasedOnce ==
    /\ [](current # "none" => (current \in scenes /\ scenes \subseteq {"menu", current}))
    /\ [][called =>
            \A p \in 1..Len(hostLog'.events) :
                /\ hostLog'.events[p][1] = "destroy" =>
                       /\ liveBefore(hostLog'.events, p, scenes)
                       /\ (\A q \in (p + 1)..Len(hostLog'.events) :
                               ~(/\ hostLog'.events[q][1] = "create"
                                 /\ hostLog'.events[q][2] = hostLog'.events[p][2]))
                              => hostLog'.events[p][2] \notin scenes'
                /\ hostLog'.events[p][1] = "destroySprite" =>
                       /\ hostLog'.events[p][2] \notin destroyed
                       /\ \A q \in 1..(p - 1) :
                              hostLog'.events[q] # hostLog'.events[p]]_vars
    /\ [][~called => destroyed' = destroyed]_vars

\* a phoenix scene with live and idle sprites was left for a new phoenix
\* scene: the old one and its sprites were destroyed, with an FPS callback
\* of an earlier scene still in the registry of tickers
C32_Witness ==
    /\ hostLog.from = "phoenix"
    /\ hostLog.id = "phoenix"
    /\ <<"destroy", "phoenix">> \in events
    /\ Cardinality({p \in 1..Len(hostLog.events) :
                       hostLog.events[p][1] = "destroySprite"}) >= 8
    /\ "fps-magic" \in DOMAIN sceneTickers

(* ------------------------ claims: dialogue ----------------------------- *)
\* the scene is on screen and shows 'Failed to load dialogue data'
failureShown(m) == ~m.destroyed /\ m.children = <<errorText>>

\* C31: once a magic scene shows 'Failed to load dialogue data', no later
\* event on it, a click included, puts a dialogue message or 'End of
\* dialogue' in its place; and the step in which the fetch fails changes
\* neither the registry of scenes, nor the ticker, nor another scene.
C31_FailureTerminal ==
    [][/\ \A i \in 1..Len(magic.scenes) :
              failureShown(magic.scenes[i]) =>
                  \A k \in 1..Len(magic'.scenes[i].children) :
                      magic'.scenes[i].children[k] = errorText
       /\ magic'.log.op = "rejected" =>
              UNCHANGED <<hostVars, ace, particles, spritePools, destroyed>>]_vars

\* C37: once a magic scene is destroyed, nothing is removed from and
\* nothing is added to its message container, whenever its fetch settles
\* and whatever the outcome, under every interleaving of fetch completion,
\* clicks and scene switches.
C37_DestroyedSceneUntouched ==
    [][\A i \in 1..Len(magic.scenes) :
           magic.scenes[i].destroyed =>
               magic'.scenes[i].children = magic.scenes[i].children]_vars

====
